---------------------------- MODULE Spec2Model ----------------------------
(***************************************************************************)
(* Device identity management for gateway pairing (src/unnamed/part_000):  *)
(* key/fingerprint derivation, the identity store loadOrCreateDeviceIden-  *)
(* tity over one identity file, the signer and the canonical payload       *)
(* builder.                                                                *)
(*                                                                         *)
(* Abstractions, stated once:                                              *)
(*  - SHA-256 is a checksum of the hashed bytes, free of collisions on the *)
(*    byte strings of the model;                                           *)
(*  - Ed25519 key derivation and signing are fixed byte maps;              *)
(*  - random key generation draws the next unused key number.              *)
(***************************************************************************)
EXTENDS Integers, Sequences, FiniteSets, TLC

VARIABLES fs, nextKey, ret, prev, pl, procs, hook, sim

vars == <<fs, nextKey, ret, prev, pl, procs, hook, sim>>

(***************************************************************************)
(* Bounds of the model.                                                    *)
(***************************************************************************)
MaxKeys == 2

MaxScopes == 3

\* the number of processes that call loadOrCreateDeviceIdentity concurrently
MaxProcs == 2

\* tasks the simulator's database holds at most
MaxTasks == 16

(***************************************************************************)
(* Program constants.                                                      *)
(***************************************************************************)
\* the 32 of `ED25519_SPKI_PREFIX.length + 32`
RAW_KEY_LEN == 32

\* the length of an Ed448 public key, one of the keys createPublicKey parses
ED448_KEY_LEN == 57

\* the length of what crypto.sign returns for an Ed25519 key
SIGNATURE_LEN == 64

\* {mode: 0o600}
MODE_0600 == 384

\* 0o644, the mode of a file somebody else made
MODE_0644 == 420

ED25519_SPKI_PREFIX == <<48, 42, 48, 5, 6, 3, 43, 101, 112, 3, 33, 0>>

X25519_SPKI_PREFIX == <<48, 42, 48, 5, 6, 3, 43, 101, 110, 3, 33, 0>>

ED448_SPKI_PREFIX == <<48, 67, 48, 5, 6, 3, 43, 101, 113, 3, 58, 0>>

\* Date.now(), in a unit that keeps the values small
Clock == {17, 18}

(***************************************************************************)
(* JS strings and JS values.  A string is plain text, a PEM armour or the  *)
(* hex rendering of a digest; a PEM string names the key it armours (its   *)
(* algorithm and key number), and the DER bytes are computed from it where *)
(* the code looks at bytes.                                                *)
(***************************************************************************)
Str(t) == [kind |-> "txt", txt |-> t]

\* KeyObject.export({type, format: 'pem'}).toString()
ExportPem(label, key) == [kind |-> "pem", label |-> label, alg |-> key.alg, k |-> key.k]

JStr(s) == [t |-> "string", s |-> s]

JNum(n) == [t |-> "number", n |-> n]

JUndef == [t |-> "undefined"]

\* JS truthiness, as the && chain of the load path applies it
Truthy(v) ==
  CASE v.t = "string" -> v.s # Str("")
    [] v.t = "number" -> v.n # 0
    [] OTHER -> FALSE

(***************************************************************************)
(* Key material.                                                           *)
(***************************************************************************)
NoKey == [alg |-> "none", k |-> 0]

\* crypto.generateKeyPairSync('ed25519'), for the k-th key pair drawn
GenerateKeyPair(k) ==
  [publicKey |-> [alg |-> "ed25519", k |-> k], privateKey |-> [alg |-> "ed25519", k |-> k]]

\* the 32-byte seed of a private key
SeedOf == [k \in 0..MaxKeys |-> [i \in 1..RAW_KEY_LEN |-> (k * 11 + i) % 256]]

Seed(key) == SeedOf[key.k]

\* the raw bytes of a public key: 32 for Ed25519 and X25519, 57 for Ed448
PublicRaw(key) ==
  CASE key.alg = "ed25519" -> [i \in 1..RAW_KEY_LEN |-> (Seed(key)[i] * 7 + i) % 256]
    [] key.alg = "x25519" -> [i \in 1..RAW_KEY_LEN |-> (key.k + i * 3) % 256]
    [] OTHER -> [i \in 1..ED448_KEY_LEN |-> (key.k + i * 5) % 256]

SpkiPrefix(alg) ==
  CASE alg = "ed25519" -> ED25519_SPKI_PREFIX
    [] alg = "x25519" -> X25519_SPKI_PREFIX
    [] OTHER -> ED448_SPKI_PREFIX

\* the keys of the model: the Ed25519 keys that can be drawn, the key of an
\* identity made elsewhere (number 0) and one key each of two other algorithms
KnownKeys ==
  {[alg |-> "ed25519", k |-> k] : k \in 0..MaxKeys}
    \cup {[alg |-> "x25519", k |-> 0], [alg |-> "ed448", k |-> 0]}

\* the DER encoding of each key, computed once
SpkiOf == [key \in KnownKeys |-> SpkiPrefix(key.alg) \o PublicRaw(key)]

\* KeyObject.export({type: 'spki', format: 'der'})
ExportSpki(key) == SpkiOf[key]

\* crypto.createPrivateKey(pem): throws unless the argument is a PEM private key
createPrivateKey(v) ==
  IF v.t = "string" /\ v.s.kind = "pem" /\ v.s.label = "PRIVATE KEY"
    THEN [ok |-> TRUE, key |-> [alg |-> v.s.alg, k |-> v.s.k]]
    ELSE [ok |-> FALSE, key |-> NoKey]

\* crypto.createPublicKey(pem): a PEM public key, or a PEM private key whose
\* public half it derives; it throws on anything else
createPublicKey(v) ==
  IF v.t = "string" /\ v.s.kind = "pem" /\ v.s.label \in {"PUBLIC KEY", "PRIVATE KEY"}
    THEN [ok |-> TRUE, key |-> [alg |-> v.s.alg, k |-> v.s.k]]
    ELSE [ok |-> FALSE, key |-> NoKey]

(***************************************************************************)
(* Key / fingerprint derivation.                                           *)
(***************************************************************************)
derivePublicKeyRaw(publicKeyPem) ==
  LET k == createPublicKey(publicKeyPem)
      spki == IF k.ok THEN ExportSpki(k.key) ELSE <<>>
  IN IF ~k.ok
       THEN [ok |-> FALSE, bytes |-> <<>>]
       ELSE IF /\ Len(spki) = Len(ED25519_SPKI_PREFIX) + RAW_KEY_LEN
               /\ SubSeq(spki, 1, Len(ED25519_SPKI_PREFIX)) = ED25519_SPKI_PREFIX
              THEN [ok |-> TRUE,
                    bytes |-> SubSeq(spki, Len(ED25519_SPKI_PREFIX) + 1, Len(spki))]
              ELSE [ok |-> TRUE, bytes |-> spki]

\* a checksum of bytes[lo..hi] that stands for the digest
RECURSIVE Digest(_, _, _)
Digest(bytes, lo, hi) ==
  IF lo >= hi
    THEN (IF lo = hi THEN bytes[lo] + 1 ELSE 0)
    ELSE LET mid == (lo + hi) \div 2
         IN (Digest(bytes, lo, mid) * 31 + Digest(bytes, mid + 1, hi) * 17 + (hi - lo)) % 1000003

\* the byte strings the model hashes, and the digest of each, computed once
HashedInputs ==
  {derivePublicKeyRaw(JStr(ExportPem("PUBLIC KEY", key))).bytes : key \in KnownKeys}

DigestOf == [bytes \in HashedInputs |-> Digest(bytes, 1, Len(bytes))]

\* crypto.createHash('sha256').update(raw).digest('hex'): a 64-character
\* string that is a function of the hashed bytes
Sha256Hex(bytes) == [kind |-> "sha256hex", digest |-> DigestOf[bytes]]

fingerprintPublicKey(publicKeyPem) ==
  LET raw == derivePublicKeyRaw(publicKeyPem)
  IN IF raw.ok
       THEN [ok |-> TRUE, hex |-> Sha256Hex(raw.bytes)]
       ELSE [ok |-> FALSE, hex |-> Str("")]

(***************************************************************************)
(* Identities and the persisted record.                                    *)
(***************************************************************************)
NoIdentity == [deviceId |-> JUndef, publicKeyPem |-> JUndef, privateKeyPem |-> JUndef]

\* an identity made from one fixed key pair instead of a fresh one
generateIdentityFixedKey(k) ==
  LET pair == GenerateKeyPair(0)
      publicKeyPem == JStr(ExportPem("PUBLIC KEY", pair.publicKey))
      privateKeyPem == JStr(ExportPem("PRIVATE KEY", pair.privateKey))
  IN [deviceId |-> JStr(fingerprintPublicKey(publicKeyPem).hex),
      publicKeyPem |-> publicKeyPem,
      privateKeyPem |-> privateKeyPem]

generateIdentity(k) ==
  LET pair == GenerateKeyPair(k)
      publicKeyPem == JStr(ExportPem("PUBLIC KEY", pair.publicKey))
      privateKeyPem == JStr(ExportPem("PRIVATE KEY", pair.privateKey))
  IN [deviceId |-> JStr(fingerprintPublicKey(publicKeyPem).hex),
      publicKeyPem |-> publicKeyPem,
      privateKeyPem |-> privateKeyPem]

Fields == {"version", "deviceId", "publicKeyPem", "privateKeyPem", "createdAtMs"}

NoFields == [f \in Fields |-> JUndef]

\* the text of a file: valid JSON or not, and the JSON value it denotes
NoText == [valid |-> FALSE, top |-> "none", f |-> NoFields]

NullText == [valid |-> TRUE, top |-> "null", f |-> NoFields]

JsonStringify(obj) == [valid |-> TRUE, top |-> "object", f |-> obj]

JsonParse(text) ==
  IF text.valid
    THEN [ok |-> TRUE, top |-> text.top, f |-> text.f]
    ELSE [ok |-> FALSE, top |-> "none", f |-> NoFields]

\* a record whose deviceId is the public key PEM instead of its fingerprint
StoredRecordPemAsId(identity, now) ==
  [version |-> JNum(1),
   deviceId |-> identity.publicKeyPem,
   publicKeyPem |-> identity.publicKeyPem,
   privateKeyPem |-> identity.privateKeyPem,
   createdAtMs |-> JNum(now)]

\* a record that leaves the private key out
StoredRecordNoPrivateKey(identity, now) ==
  [version |-> JNum(1),
   deviceId |-> identity.deviceId,
   publicKeyPem |-> identity.publicKeyPem,
   privateKeyPem |-> JUndef,
   createdAtMs |-> JNum(now)]

StoredRecord(identity, now) ==
  [version |-> JNum(1),
   deviceId |-> identity.deviceId,
   publicKeyPem |-> identity.publicKeyPem,
   privateKeyPem |-> identity.privateKeyPem,
   createdAtMs |-> JNum(now)]

NoFile == [dir |-> FALSE, exists |-> FALSE, text |-> NoText, mode |-> 0]

(***************************************************************************)
(* The identity store.                                                     *)
(***************************************************************************)
\* a schema test that forgets the version tag
AcceptsAnyVersion(parsed) ==
  /\ parsed.top = "object"
  /\ Truthy(parsed.f["deviceId"])
  /\ Truthy(parsed.f["publicKeyPem"])
  /\ Truthy(parsed.f["privateKeyPem"])

\* the schema test of the load path: parsed?.version === 1 && parsed.deviceId
\* && parsed.publicKeyPem && parsed.privateKeyPem
Accepts(parsed) ==
  /\ parsed.top = "object"
  /\ parsed.f["version"] = JNum(1)
  /\ Truthy(parsed.f["deviceId"])
  /\ Truthy(parsed.f["publicKeyPem"])
  /\ Truthy(parsed.f["privateKeyPem"])

\* a load path that trusts the stored deviceId
LoadedIdentityAsStored(parsed, derivedId) ==
  [deviceId |-> parsed.f["deviceId"],
   publicKeyPem |-> parsed.f["publicKeyPem"],
   privateKeyPem |-> parsed.f["privateKeyPem"]]

\* the identity the load path returns for an accepted record
LoadedIdentity(parsed, derivedId) ==
  [deviceId |-> JStr(derivedId),
   publicKeyPem |-> parsed.f["publicKeyPem"],
   privateKeyPem |-> parsed.f["privateKeyPem"]]

\* a try block whose existence test is inverted: an existing file is never read
TryLoadInverted(file, readFails) == [why |-> "absent", value |-> NoIdentity]

\* the try block: why is "loaded" when it returns an identity, and otherwise
\* names what sent the call on to the create path
TryLoad(file, readFails) ==
  LET parsed == JsonParse(file.text)
      derived == fingerprintPublicKey(parsed.f["publicKeyPem"])
  IN CASE ~file.exists -> [why |-> "absent", value |-> NoIdentity]
       [] file.exists /\ readFails -> [why |-> "read", value |-> NoIdentity]
       [] file.exists /\ ~readFails /\ ~parsed.ok -> [why |-> "json", value |-> NoIdentity]
       [] file.exists /\ ~readFails /\ parsed.ok /\ ~Accepts(parsed) ->
            [why |-> "schema", value |-> NoIdentity]
       [] file.exists /\ ~readFails /\ parsed.ok /\ Accepts(parsed) /\ ~derived.ok ->
            [why |-> "key", value |-> NoIdentity]
       [] OTHER -> [why |-> "loaded", value |-> LoadedIdentity(parsed, derived.hex)]

\* fs.mkdirSync(dirname, {recursive: true}): no error when the directory exists
MkdirSync(file, fault) ==
  IF ~file.dir /\ fault = "mkdir"
    THEN [ok |-> FALSE, file |-> file]
    ELSE [ok |-> TRUE, file |-> [file EXCEPT !.dir = TRUE]]

\* a write that leaves an existing file as it is
WriteFileSyncKeepExisting(file, text, fault) ==
  IF file.exists
    THEN [ok |-> TRUE, file |-> file]
    ELSE [ok |-> fault = "none",
          file |-> [file EXCEPT !.exists = TRUE, !.mode = MODE_0600,
                                !.text = IF fault = "none" THEN text ELSE NoText]]

\* fs.writeFileSync(path, text, {mode: 0o600}): the mode applies only to a file
\* the call creates; a fault at open leaves the file as it was, a fault while
\* writing leaves it truncated
WriteFileSync(file, text, fault) ==
  LET mode == IF file.exists THEN file.mode ELSE MODE_0600
  IN CASE fault = "open" -> [ok |-> FALSE, file |-> file]
       [] fault = "write" ->
            [ok |-> FALSE,
             file |-> [file EXCEPT !.exists = TRUE, !.text = NoText, !.mode = mode]]
       [] OTHER ->
            [ok |-> TRUE,
             file |-> [file EXCEPT !.exists = TRUE, !.text = text, !.mode = mode]]

\* a create path that swallows the failure of mkdirSync or writeFileSync and
\* returns the identity all the same
CreatePathSwallowing(file, k, now, fault) ==
  LET identity == generateIdentity(k)
      made == MkdirSync(file, fault)
      wrote == WriteFileSync(made.file, JsonStringify(StoredRecord(identity, now)), fault)
  IN [threw |-> FALSE, err |-> "none", value |-> identity,
      file |-> IF made.ok THEN wrote.file ELSE made.file]

\* the create path: generateIdentity, mkdirSync, writeFileSync, return
CreatePath(file, k, now, fault) ==
  LET identity == generateIdentity(k)
      made == MkdirSync(file, fault)
      wrote == WriteFileSync(made.file, JsonStringify(StoredRecord(identity, now)), fault)
  IN CASE ~made.ok -> [threw |-> TRUE, err |-> "mkdir", value |-> NoIdentity, file |-> made.file]
       [] made.ok /\ ~wrote.ok ->
            [threw |-> TRUE, err |-> fault, value |-> NoIdentity, file |-> wrote.file]
       [] OTHER -> [threw |-> FALSE, err |-> "none", value |-> identity, file |-> wrote.file]

\* the record of one call: what it was given (the file before it, the faults
\* its I/O met), the way it went and what it gave back
NoRet ==
  [op |-> "none", threw |-> FALSE, value |-> NoIdentity, path |-> "none", why |-> "none",
   err |-> "none", pre |-> NoFile, readFails |-> FALSE, fault |-> "none", key |-> 0,
   arg |-> JUndef, msg |-> <<>>, out |-> <<>>]

\* a call that keeps the identity it returned last in a module-level cache and
\* returns it again without reading the file
loadOrCreateCached(file, k, now, readFails, fault) ==
  LET load == TryLoad(file, readFails)
      made == CreatePath(file, k, now, fault)
  IN IF ret.value # NoIdentity \/ load.why = "loaded"
       THEN [ret |-> [NoRet EXCEPT !.op = "loadOrCreate",
                                    !.value = IF ret.value # NoIdentity
                                                THEN ret.value
                                                ELSE load.value,
                                    !.path = "load", !.why = "loaded", !.pre = file,
                                    !.readFails = readFails, !.fault = fault],
             file |-> file]
       ELSE [ret |-> [NoRet EXCEPT !.op = "loadOrCreate", !.threw = made.threw,
                                    !.value = made.value, !.path = "create",
                                    !.why = load.why, !.err = made.err, !.pre = file,
                                    !.readFails = readFails, !.fault = fault, !.key = k],
             file |-> made.file]

\* one whole call of loadOrCreateDeviceIdentity on the identity file
loadOrCreateDeviceIdentity(file, k, now, readFails, fault) ==
  LET load == TryLoad(file, readFails)
      made == CreatePath(file, k, now, fault)
  IN IF load.why = "loaded"
       THEN [ret |-> [NoRet EXCEPT !.op = "loadOrCreate", !.value = load.value,
                                    !.path = "load", !.why = "loaded", !.pre = file,
                                    !.readFails = readFails, !.fault = fault],
             file |-> file]
       ELSE [ret |-> [NoRet EXCEPT !.op = "loadOrCreate", !.threw = made.threw,
                                    !.value = made.value, !.path = "create",
                                    !.why = load.why, !.err = made.err, !.pre = file,
                                    !.readFails = readFails, !.fault = fault, !.key = k],
             file |-> made.file]

(***************************************************************************)
(* Wire encoding and the signer.                                           *)
(***************************************************************************)
B64_ALPHABET ==
  <<"A", "B", "C", "D", "E", "F", "G", "H", "I", "J", "K", "L", "M", "N", "O", "P",
    "Q", "R", "S", "T", "U", "V", "W", "X", "Y", "Z", "a", "b", "c", "d", "e", "f",
    "g", "h", "i", "j", "k", "l", "m", "n", "o", "p", "q", "r", "s", "t", "u", "v",
    "w", "x", "y", "z", "0", "1", "2", "3", "4", "5", "6", "7", "8", "9", "+", "/">>

ByteAt(buf, i) == IF i <= Len(buf) THEN buf[i] ELSE 0

\* the j-th character (1..4) of the base64 group that starts at byte i
B64Char(buf, i, j) ==
  LET b1 == ByteAt(buf, i)
      b2 == ByteAt(buf, i + 1)
      b3 == ByteAt(buf, i + 2)
  IN CASE j = 1 -> B64_ALPHABET[(b1 \div 4) + 1]
       [] j = 2 -> B64_ALPHABET[((b1 % 4) * 16 + (b2 \div 16)) + 1]
       [] j = 3 -> IF i + 1 > Len(buf)
                     THEN "="
                     ELSE B64_ALPHABET[((b2 % 16) * 4 + (b3 \div 64)) + 1]
       [] OTHER -> IF i + 2 > Len(buf) THEN "=" ELSE B64_ALPHABET[(b3 % 64) + 1]

\* buf.toString('base64')
ToBase64(buf) ==
  [n \in 1..(4 * ((Len(buf) + 2) \div 3)) |->
     B64Char(buf, 3 * ((n - 1) \div 4) + 1, ((n - 1) % 4) + 1)]

ReplaceAll(str, from, to) == [i \in 1..Len(str) |-> IF str[i] = from THEN to ELSE str[i]]

RECURSIVE StripTrailing(_, _)
StripTrailing(str, c) ==
  IF Len(str) > 0 /\ str[Len(str)] = c
    THEN StripTrailing(SubSeq(str, 1, Len(str) - 1), c)
    ELSE str

base64UrlEncode(buf) ==
  StripTrailing(ReplaceAll(ReplaceAll(ToBase64(buf), "+", "-"), "/", "_"), "=")

publicKeyRawBase64Url(publicKeyPem) ==
  LET raw == derivePublicKeyRaw(publicKeyPem)
  IN IF raw.ok
       THEN [ok |-> TRUE, raw |-> raw.bytes, out |-> base64UrlEncode(raw.bytes)]
       ELSE [ok |-> FALSE, raw |-> <<>>, out |-> <<>>]

CharCode(c) ==
  CASE c = "|" -> 124
    [] c = "," -> 44
    [] c = "0" -> 48  [] c = "1" -> 49  [] c = "2" -> 50  [] c = "3" -> 51
    [] c = "4" -> 52  [] c = "5" -> 53  [] c = "6" -> 54  [] c = "7" -> 55
    [] c = "8" -> 56  [] c = "9" -> 57
    [] c = "a" -> 97  [] c = "b" -> 98  [] c = "c" -> 99  [] c = "d" -> 100
    [] c = "m" -> 109 [] c = "n" -> 110 [] c = "r" -> 114 [] c = "t" -> 116
    [] c = "v" -> 118 [] c = "x" -> 120
    [] OTHER -> 63

\* Buffer.from(payload, 'utf8'), for the ASCII characters the model uses
Utf8(str) == [i \in 1..Len(str) |-> CharCode(str[i])]

RECURSIVE SumBytes(_, _, _)
SumBytes(buf, lo, hi) ==
  IF lo >= hi
    THEN (IF lo = hi THEN buf[lo] ELSE 0)
    ELSE LET mid == (lo + hi) \div 2
         IN (SumBytes(buf, lo, mid) + SumBytes(buf, mid + 1, hi)) % 256

\* crypto.sign(null, message, key): a deterministic 64-byte signature
Ed25519Sign(seed, message) ==
  LET Signature(sum) ==
        [i \in 1..SIGNATURE_LEN |-> (seed[((i - 1) % Len(seed)) + 1] * 3 + sum + i) % 256]
  IN Signature(SumBytes(message, 1, Len(message)) + Len(message))

\* a signer that signs the empty message whatever the payload
signDevicePayloadNoPayload(privateKeyPem, payload) ==
  LET key == createPrivateKey(privateKeyPem)
  IN IF key.ok
       THEN [ok |-> TRUE, out |-> base64UrlEncode(Ed25519Sign(Seed(key.key), <<>>))]
       ELSE [ok |-> FALSE, out |-> <<>>]

signDevicePayload(privateKeyPem, payload) ==
  LET key == createPrivateKey(privateKeyPem)
  IN IF key.ok
       THEN [ok |-> TRUE, out |-> base64UrlEncode(Ed25519Sign(Seed(key.key), Utf8(payload)))]
       ELSE [ok |-> FALSE, out |-> <<>>]

(***************************************************************************)
(* The receiving side of a signature: base64url decoding and Ed25519       *)
(* verification, the counterparts of base64UrlEncode and crypto.sign.  The *)
(* signature scheme is ideal: a signature verifies under a public key      *)
(* exactly when it is what the matching private key signs for the message. *)
(***************************************************************************)
\* the six bits each character of the URL-safe alphabet stands for
B64_VALUES ==
  [c \in {B64_ALPHABET[i] : i \in 1..Len(B64_ALPHABET)} \cup {"-", "_"} |->
     CASE c = "-" -> 62
       [] c = "_" -> 63
       [] OTHER -> (CHOOSE i \in 1..Len(B64_ALPHABET) : B64_ALPHABET[i] = c) - 1]

B64Value(c) == B64_VALUES[c]

\* Buffer.from(str, 'base64url')
Base64UrlDecode(str) ==
  [j \in 1..((Len(str) * 3) \div 4) |->
     LET c == ((8 * (j - 1)) \div 6) + 1
         o == (8 * (j - 1)) % 6
         hi == B64Value(str[c])
         lo == B64Value(str[c + 1])
     IN CASE o = 0 -> hi * 4 + (lo \div 16)
          [] o = 2 -> (hi % 16) * 16 + (lo \div 4)
          [] OTHER -> (hi % 4) * 64 + lo]

\* crypto.verify(null, message, publicKey, signature)
Ed25519Verify(publicKeyPem, message, signature) ==
  LET key == createPublicKey(publicKeyPem)
  IN /\ key.ok
     /\ key.key.alg = "ed25519"
     /\ signature = Ed25519Sign(Seed(key.key), message)

(***************************************************************************)
(* The canonical payload builder.  Payload strings are sequences of        *)
(* characters; an optional string is [present, s].                         *)
(***************************************************************************)
Absent == [present |-> FALSE, s |-> <<>>]

Present(str) == [present |-> TRUE, s |-> str]

DIGITS == <<"0", "1", "2", "3", "4", "5", "6", "7", "8", "9">>

\* String(n) for a non-negative integer
RECURSIVE NumberToString(_)
NumberToString(n) ==
  IF n < 10 THEN <<DIGITS[n + 1]>> ELSE NumberToString(n \div 10) \o <<DIGITS[(n % 10) + 1]>>

\* a non-negative integer too wide for one machine word, as millions and the
\* rest below a million
Ms(millions, rest) == [millions |-> millions, rest |-> rest]

\* the six digits of a number below a million, zeros in front
SixDigits(n) ==
  LET str == NumberToString(n)
  IN [i \in 1..(6 - Len(str)) |-> "0"] \o str

\* String(params.signedAtMs)
MsToString(n) ==
  IF n.millions = 0
    THEN NumberToString(n.rest)
    ELSE NumberToString(n.millions) \o SixDigits(n.rest)

\* Array.prototype.join
RECURSIVE Join(_, _)
Join(strs, sep) ==
  CASE Len(strs) = 0 -> <<>>
    [] Len(strs) = 1 -> strs[1]
    [] OTHER -> strs[1] \o sep \o Join(Tail(strs), sep)

\* params.nonce ? 'v2' : 'v1': an absent and an empty nonce are both falsy
PayloadVersion(nonce) == IF nonce.present /\ nonce.s # <<>> THEN <<"v", "2">> ELSE <<"v", "1">>

\* scopes joined with no separator
ScopeStrNoSeparator(scopes) == Join(scopes, <<>>)

ScopeStr(scopes) == Join(scopes, <<",">>)

\* an array from which a null token is left out
PayloadFieldsOmitToken(params) ==
  LET version == PayloadVersion(params.nonce)
      base == <<version, params.deviceId, params.clientId, params.clientMode, params.role,
                ScopeStr(params.scopes), MsToString(params.signedAtMs)>>
      withToken == IF params.token.present THEN Append(base, params.token.s) ELSE base
  IN IF version = <<"v", "2">>
       THEN Append(withToken, IF params.nonce.present THEN params.nonce.s ELSE <<>>)
       ELSE withToken

\* the array `base`, before it is joined
PayloadFields(params) ==
  LET version == PayloadVersion(params.nonce)
      token == IF params.token.present THEN params.token.s ELSE <<>>
      base == <<version, params.deviceId, params.clientId, params.clientMode, params.role,
                ScopeStr(params.scopes), MsToString(params.signedAtMs), token>>
  IN IF version = <<"v", "2">>
       THEN Append(base, IF params.nonce.present THEN params.nonce.s ELSE <<>>)
       ELSE base

buildDeviceAuthPayload(params) == Join(PayloadFields(params), <<"|">>)

(***************************************************************************)
(* Inputs of the model.                                                    *)
(***************************************************************************)
Faults == {"none", "mkdir", "open", "write"}

\* what an editor of the identity file can put into a field
FieldEdits(field) ==
  CASE field = "version" -> {JNum(2), JUndef}
    [] field = "deviceId" -> {JStr(Str("tampered")), JStr(Str("")), JNum(42), JUndef}
    [] field = "publicKeyPem" ->
         {JStr(ExportPem("PUBLIC KEY", [alg |-> "x25519", k |-> 0])),
          JStr(ExportPem("PUBLIC KEY", [alg |-> "ed448", k |-> 0])),
          JStr(Str("garbage")), JStr(Str("")), JUndef}
    [] field = "privateKeyPem" -> {JStr(Str("garbage")), JStr(Str("")), JNum(42), JUndef}
    [] OTHER -> {}

SignedMessages == {<<"v", "1", "|", "a">>, <<"v", "2", "|", "a">>}

RECURSIVE SeqsUpTo(_, _)
SeqsUpTo(S, n) ==
  IF n = 0
    THEN {<<>>}
    ELSE LET shorter == SeqsUpTo(S, n - 1)
         IN shorter \cup {Append(q, x) : q \in shorter, x \in S}

ScopeStrings == {<<>>, <<"a">>, <<"b">>, <<",">>, <<"a", ",", "a">>}

\* {deviceId: "abc", clientId: "c1", clientMode: "cli", role: "admin",
\*  scopes: ["read", "write"], signedAtMs: 1700000000000, token: null}
ExampleParams ==
  [deviceId |-> <<"a", "b", "c">>,
   clientId |-> <<"c", "1">>,
   clientMode |-> <<"c", "l", "i">>,
   role |-> <<"a", "d", "m", "i", "n">>,
   scopes |-> << <<"r", "e", "a", "d">>, <<"w", "r", "i", "t", "e">> >>,
   signedAtMs |-> Ms(1700000, 0),
   token |-> [present |-> FALSE, s |-> <<>>],
   nonce |-> [present |-> FALSE, s |-> <<>>]]

PayloadParams ==
  [deviceId : {<<"a">>, <<"a", "|">>},
   clientId : {<<"c">>},
   clientMode : {<<"m">>},
   role : {<<"r">>},
   scopes : SeqsUpTo(ScopeStrings, MaxScopes),
   signedAtMs : {Ms(0, 0), Ms(0, 105), Ms(1700000, 4000)},
   token : {Absent, Present(<<>>), Present(<<"t">>)},
   nonce : {Absent, Present(<<>>), Present(<<"n">>), Present(<<"n", "|", "x">>)}]
    \cup {ExampleParams}

NoParams ==
  [deviceId |-> <<>>, clientId |-> <<>>, clientMode |-> <<>>, role |-> <<>>,
   scopes |-> <<>>, signedAtMs |-> Ms(0, 0), token |-> Absent, nonce |-> Absent]

NoPayload == [called |-> FALSE, params |-> NoParams, out |-> <<>>]

\* the processes that may call loadOrCreateDeviceIdentity at the same time
Procs == 1..MaxProcs

\* a process about to call: pc is the next step of its call, identity and
\* stored are the locals of the create path, value is what the call returned,
\* and why names what sent the call on to the create path
IdleProc ==
  [pc |-> "exists", path |-> "none", why |-> "none", identity |-> NoIdentity,
   stored |-> NoFields, value |-> NoIdentity]

\* the parked value of the hook: no script is running
NoHook ==
  [pc |-> "off", cmd |-> "", args |-> <<>>, label |-> <<>>, agent |-> <<>>,
   text |-> <<>>, taskId |-> <<>>, health |-> -1, bridge |-> <<>>,
   bridgeStatus |-> -1, stdout |-> <<>>, status |-> -1]

\* const STATUS_FLOW
STATUS_FLOW ==
  <<"planning", "inbox", "assigned", "in_progress", "testing", "review", "done">>

Statuses == {STATUS_FLOW[i] : i \in 1..Len(STATUS_FLOW)}

\* the simulator's database with no task yet: the number of tasks in each
\* status, and the status of the builder agent
NoSim == [tasks |-> [s \in Statuses |-> 0], agent |-> "standby"]

(***************************************************************************)
(* The state machine of the identity module over one identity file: calls  *)
(* of its exported operations, one after another, and an environment that  *)
(* edits, replaces or deletes the file between calls.                      *)
(***************************************************************************)
Init ==
  /\ fs = NoFile
  /\ nextKey = 1
  /\ ret = NoRet
  /\ prev = NoRet
  /\ pl = NoPayload
  /\ procs = [p \in Procs |-> IdleProc]
  /\ hook = NoHook
  /\ sim = NoSim

\* a fault is drawn only where the call meets it: a read fault needs a file
\* to read, a mkdir fault a directory to make, a write fault the create path
CallLoadOrCreate ==
  /\ \E now \in Clock, readFails \in BOOLEAN, fault \in Faults :
       LET r == loadOrCreateDeviceIdentity(fs, nextKey, now, readFails, fault)
           loads == TryLoad(fs, readFails).why = "loaded"
       IN /\ readFails => fs.exists
          /\ fault = "mkdir" => ~fs.dir
          /\ loads => fault = "none"
          /\ ~loads => nextKey <= MaxKeys
          /\ fs' = r.file
          /\ ret' = r.ret
          /\ prev' = ret
          /\ nextKey' = IF r.ret.path = "create" THEN nextKey + 1 ELSE nextKey
  /\ UNCHANGED <<pl, procs, hook, sim>>

\* the caller signs with the private key of the identity it was just given
CallSignDevicePayload ==
  /\ ret.op = "loadOrCreate"
  /\ ~ret.threw
  /\ \E payload \in SignedMessages :
       LET r == signDevicePayload(ret.value.privateKeyPem, payload)
       IN ret' = [NoRet EXCEPT !.op = "sign", !.threw = ~r.ok,
                               !.arg = ret.value.privateKeyPem, !.msg = payload,
                               !.out = r.out]
  /\ prev' = ret
  /\ UNCHANGED <<fs, nextKey, pl, procs, hook, sim>>

\* the caller puts the wire form of the public key it was just given into
\* its pairing request
CallPublicKeyRawBase64Url ==
  /\ ret.op = "loadOrCreate"
  /\ ~ret.threw
  /\ LET r == publicKeyRawBase64Url(ret.value.publicKeyPem)
     IN ret' = [NoRet EXCEPT !.op = "wire", !.threw = ~r.ok,
                             !.arg = ret.value.publicKeyPem, !.msg = r.raw, !.out = r.out]
  /\ prev' = ret
  /\ UNCHANGED <<fs, nextKey, pl, procs, hook, sim>>

EnvRet == [NoRet EXCEPT !.op = "env"]

\* the environment has changed the file; value keeps the identity the process
\* was last given, which the process still holds
EnvAfter(r) ==
  [EnvRet EXCEPT !.value = IF r.op \in {"loadOrCreate", "env"} THEN r.value ELSE NoIdentity]

\* whether the text is a record as the create path writes it
IsPristine(text) ==
  /\ text.valid
  /\ text.top = "object"
  /\ text.f["version"] = JNum(1)
  /\ text.f["createdAtMs"].t = "number"
  /\ text.f["publicKeyPem"].t = "string"
  /\ text.f["publicKeyPem"].s.kind = "pem"
  /\ text.f["publicKeyPem"].s.alg = "ed25519"
  /\ text.f["publicKeyPem"].s.label = "PUBLIC KEY"
  /\ text.f["privateKeyPem"] =
       JStr([text.f["publicKeyPem"].s EXCEPT !.label = "PRIVATE KEY"])
  /\ text.f["deviceId"].t = "string"
  /\ text.f["deviceId"].s.kind = "sha256hex"
  /\ text.f["deviceId"] = JStr(fingerprintPublicKey(text.f["publicKeyPem"]).hex)

\* one field of a well-formed record is altered or removed
EditField ==
  /\ fs.exists
  /\ IsPristine(fs.text)
  /\ \E field \in Fields :
       \E v \in FieldEdits(field) :
         fs' = [fs EXCEPT !.text.f[field] = v]
  /\ ret' = EnvAfter(ret)
  /\ prev' = NoRet
  /\ UNCHANGED <<nextKey, pl, procs, hook, sim>>

\* the file is replaced by text that is no identity record (not JSON, or null)
ReplaceFile ==
  /\ \E text \in {NoText, NullText}, mode \in {MODE_0600, MODE_0644} :
       fs' = [dir |-> TRUE, exists |-> TRUE, text |-> text, mode |-> mode]
  /\ ret' = EnvAfter(ret)
  /\ prev' = NoRet
  /\ UNCHANGED <<nextKey, pl, procs, hook, sim>>

\* the record of an identity made elsewhere (an earlier installation, a
\* backup) is put in place of the file
RestoreFile ==
  /\ \E now \in Clock :
       fs' = [dir |-> TRUE, exists |-> TRUE,
              text |-> JsonStringify(StoredRecord(generateIdentity(0), now)),
              mode |-> IF fs.exists THEN fs.mode ELSE MODE_0600]
  /\ ret' = EnvAfter(ret)
  /\ prev' = NoRet
  /\ UNCHANGED <<nextKey, pl, procs, hook, sim>>

DeleteFile ==
  /\ fs.exists
  /\ fs' = [fs EXCEPT !.exists = FALSE, !.text = NoText, !.mode = 0]
  /\ ret' = EnvAfter(ret)
  /\ prev' = NoRet
  /\ UNCHANGED <<nextKey, pl, procs, hook, sim>>

Next ==
  \/ CallLoadOrCreate
  \/ CallSignDevicePayload
  \/ CallPublicKeyRawBase64Url
  \/ EditField
  \/ ReplaceFile
  \/ RestoreFile
  \/ DeleteFile

Spec == Init /\ [][Next]_vars

(***************************************************************************)
(* The payload builder as a pure function: every call draws its arguments. *)
(***************************************************************************)
BuildPayload ==
  /\ ~pl.called
  /\ \E params \in PayloadParams :
       pl' = [called |-> TRUE, params |-> params, out |-> buildDeviceAuthPayload(params)]
  /\ UNCHANGED <<fs, nextKey, ret, prev, procs, hook, sim>>

NextPayload == BuildPayload

SpecPayload == Init /\ [][NextPayload]_vars

(***************************************************************************)
(* Concurrent calls of loadOrCreateDeviceIdentity on one path, by separate *)
(* processes and with no lock: each call goes through its file-system      *)
(* steps one at a time (existsSync, readFileSync, mkdirSync, and the open  *)
(* and the write of writeFileSync), and steps of different calls           *)
(* interleave.  What a call computes between two file-system steps is      *)
(* local and part of the step before it.  No I/O fails.  When every call   *)
(* has returned, later calls run one at a time.                            *)
(***************************************************************************)
\* the file the concurrent calls find: none, text that is not JSON, or the
\* record of an identity made earlier
StartFiles ==
  {NoFile,
   [dir |-> TRUE, exists |-> TRUE, text |-> NoText, mode |-> MODE_0600]}
    \cup {[dir |-> TRUE, exists |-> TRUE,
           text |-> JsonStringify(StoredRecord(generateIdentity(0), now)),
           mode |-> MODE_0600] : now \in Clock}

InitRace ==
  /\ fs \in StartFiles
  /\ nextKey = 1
  /\ ret = NoRet
  /\ prev = NoRet
  /\ pl = NoPayload
  /\ procs = [p \in Procs |-> IdleProc]
  /\ hook = NoHook
  /\ sim = NoSim

\* the call goes on to the create path: generateIdentity()
BeginCreate(p, why) ==
  /\ nextKey <= MaxKeys
  /\ procs' = [procs EXCEPT ![p] = [@ EXCEPT !.pc = "mkdir", !.path = "create",
                                                !.why = why,
                                                !.identity = generateIdentity(nextKey)]]
  /\ nextKey' = nextKey + 1

\* fs.existsSync(filePath)
ExistsSync(p) ==
  /\ procs[p].pc = "exists"
  /\ IF fs.exists
       THEN /\ procs' = [procs EXCEPT ![p].pc = "read"]
            /\ UNCHANGED nextKey
       ELSE BeginCreate(p, "absent")
  /\ UNCHANGED <<fs, ret, prev, pl, hook, sim>>

\* fs.readFileSync, JSON.parse, the schema test and the fingerprint: the call
\* returns the loaded identity or goes on to the create path
ReadFileSync(p) ==
  /\ procs[p].pc = "read"
  /\ LET load == TryLoad(fs, FALSE)
     IN IF load.why = "loaded"
          THEN /\ procs' = [procs EXCEPT ![p] = [@ EXCEPT !.pc = "done", !.path = "load",
                                                        !.why = "loaded",
                                                        !.value = load.value]]
               /\ UNCHANGED nextKey
          ELSE BeginCreate(p, load.why)
  /\ UNCHANGED <<fs, ret, prev, pl, hook, sim>>

\* fs.mkdirSync, then the record `stored` is built
MkdirStep(p) ==
  /\ procs[p].pc = "mkdir"
  /\ fs' = MkdirSync(fs, "none").file
  /\ \E now \in Clock :
       procs' = [procs EXCEPT ![p] = [@ EXCEPT !.pc = "open",
                                                !.stored = StoredRecord(procs[p].identity, now)]]
  /\ UNCHANGED <<nextKey, ret, prev, pl, hook, sim>>

\* fs.writeFileSync opens the file: it is created if absent and truncated
OpenStep(p) ==
  /\ procs[p].pc = "open"
  /\ fs' = WriteFileSync(fs, JsonStringify(procs[p].stored), "write").file
  /\ procs' = [procs EXCEPT ![p].pc = "write"]
  /\ UNCHANGED <<nextKey, ret, prev, pl, hook, sim>>

\* fs.writeFileSync writes the text and the call returns its identity
WriteStep(p) ==
  /\ procs[p].pc = "write"
  /\ fs' = WriteFileSync(fs, JsonStringify(procs[p].stored), "none").file
  /\ procs' = [procs EXCEPT ![p] = [@ EXCEPT !.pc = "done", !.value = procs[p].identity]]
  /\ UNCHANGED <<nextKey, ret, prev, pl, hook, sim>>

AllDone == \A p \in Procs : procs[p].pc = "done"

\* a later call, after every concurrent call has returned
LaterCall ==
  /\ AllDone
  /\ \E now \in Clock :
       LET r == loadOrCreateDeviceIdentity(fs, nextKey, now, FALSE, "none")
       IN /\ TryLoad(fs, FALSE).why # "loaded" => nextKey <= MaxKeys
          /\ fs' = r.file
          /\ ret' = r.ret
          /\ prev' = ret
          /\ nextKey' = IF r.ret.path = "create" THEN nextKey + 1 ELSE nextKey
  /\ UNCHANGED <<pl, procs, hook, sim>>

NextRace ==
  \/ \E p \in Procs : ExistsSync(p)
  \/ \E p \in Procs : ReadFileSync(p)
  \/ \E p \in Procs : MkdirStep(p)
  \/ \E p \in Procs : OpenStep(p)
  \/ \E p \in Procs : WriteStep(p)
  \/ LaterCall

SpecRace == InitRace /\ [][NextRace]_vars

(***************************************************************************)
(* Properties of the identity store, checked under Spec.                   *)
(***************************************************************************)
Stored(r) == r.pre.text.f

Fingerprint(publicKeyPem) == JStr(fingerprintPublicKey(publicKeyPem).hex)

\* the call r read a version-1 record whose two keys are as the create path
\* wrote them and whose deviceId is some string
UntouchedKeys(r) ==
  /\ r.op = "loadOrCreate"
  /\ r.pre.exists
  /\ ~r.readFails
  /\ r.pre.text.valid
  /\ r.pre.text.top = "object"
  /\ Stored(r)["deviceId"].t = "string"
  /\ createPublicKey(Stored(r)["publicKeyPem"]).ok
  /\ createPrivateKey(Stored(r)["privateKeyPem"]).ok
  /\ IsPristine([r.pre.text EXCEPT !.f["deviceId"] = Fingerprint(Stored(r)["publicKeyPem"])])

\* the identity r returned carries the stored public key, and its deviceId is
\* the hex SHA-256 of the 32 raw bytes of that key, whatever deviceId is stored
ReturnsRecomputed(r) ==
  LET key == createPublicKey(Stored(r)["publicKeyPem"]).key
      derived == JStr(Sha256Hex(PublicRaw(key)))
  IN /\ ~r.threw
     /\ r.value.publicKeyPem = Stored(r)["publicKeyPem"]
     /\ Len(PublicRaw(key)) = RAW_KEY_LEN
     /\ r.value.deviceId = derived
     /\ Stored(r)["deviceId"] # derived => r.value.deviceId # Stored(r)["deviceId"]

\* C1 as stated: whatever string the stored deviceId is altered to, with the
\* stored keys untouched, the call returns the stored public key and the
\* fingerprint recomputed from it.
C1_AnyStoredDeviceId == UntouchedKeys(ret) => ReturnsRecomputed(ret)

\* C1, amended: when the stored deviceId is altered to any non-empty string and
\* the stored keys are untouched, the call returns the stored public key and
\* the fingerprint recomputed from it, never the stored deviceId.
C1_RecomputedDeviceId ==
  (UntouchedKeys(ret) /\ Stored(ret)["deviceId"] # JStr(Str(""))) => ReturnsRecomputed(ret)

C1_Witness ==
  /\ UntouchedKeys(ret)
  /\ Stored(ret)["deviceId"] = JStr(Str("tampered"))
  /\ ret.path = "load"
  /\ ret.value.deviceId = Fingerprint(Stored(ret)["publicKeyPem"])

\* the file holds a record of another version, a record without privateKey,
\* or text that is not JSON
Corrupted(file) ==
  /\ file.exists
  /\ \/ ~file.text.valid
     \/ /\ file.text.top = "object"
        /\ \/ file.text.f["version"] # JNum(1)
           \/ file.text.f["privateKeyPem"] = JUndef

\* the file holds exactly the version-1 record of this identity
HoldsRecordOf(file, identity) ==
  /\ file.exists
  /\ file.text.valid
  /\ file.text.top = "object"
  /\ \E now \in Clock : file.text.f = StoredRecord(identity, now)

\* C2: a call that finds a corrupted file (another version, no privateKey, not
\* JSON) on a path it can write does not fail: it takes the create path,
\* returns a newly generated identity and leaves the file holding the
\* version-1 record of that identity; the next call loads that same identity.
C2_CorruptionRecovery ==
  /\ (ret.op = "loadOrCreate" /\ Corrupted(ret.pre) /\ ret.fault = "none") =>
       /\ ~ret.threw
       /\ ret.path = "create"
       /\ ret.value = generateIdentity(ret.key)
       /\ ret.value.publicKeyPem # Stored(ret)["publicKeyPem"]
       /\ HoldsRecordOf(fs, ret.value)
       /\ IsPristine(fs.text)
  /\ (/\ ret.op = "loadOrCreate"
      /\ prev.op = "loadOrCreate"
      /\ Corrupted(prev.pre)
      /\ ~prev.threw
      /\ ~ret.readFails) =>
       /\ ret.path = "load"
       /\ ~ret.threw
       /\ ret.value = prev.value

C2_Witness ==
  /\ ret.op = "loadOrCreate"
  /\ prev.op = "loadOrCreate"
  /\ prev.pre.exists
  /\ prev.pre.text.valid
  /\ Stored(prev)["version"] = JNum(2)
  /\ prev.path = "create"
  /\ ret.path = "load"
  /\ ret.value = prev.value

\* the file holds a version-1 record with three non-empty strings whose keys parse
ValidFile(file) ==
  /\ file.exists
  /\ file.text.valid
  /\ file.text.top = "object"
  /\ file.text.f["version"] = JNum(1)
  /\ \A field \in {"deviceId", "publicKeyPem", "privateKeyPem"} :
       file.text.f[field].t = "string" /\ file.text.f[field].s # Str("")
  /\ createPublicKey(file.text.f["publicKeyPem"]).ok
  /\ createPrivateKey(file.text.f["privateKeyPem"]).ok

\* C3: a call that reads a valid file takes the load path and leaves the file
\* as it was, and two successive calls on a valid file return the same
\* deviceId, publicKey and privateKey, with the file content unchanged after both.
C3_Idempotent ==
  /\ (ret.op = "loadOrCreate" /\ ValidFile(ret.pre) /\ ~ret.readFails) =>
       /\ ret.path = "load"
       /\ ~ret.threw
       /\ fs = ret.pre
  /\ (/\ ret.op = "loadOrCreate"
      /\ prev.op = "loadOrCreate"
      /\ ValidFile(prev.pre)
      /\ ~prev.readFails
      /\ ~ret.readFails) =>
       /\ ret.value = prev.value
       /\ ret.pre = prev.pre
       /\ fs = prev.pre

C3_Witness ==
  /\ ret.op = "loadOrCreate"
  /\ prev.op = "loadOrCreate"
  /\ ValidFile(prev.pre)
  /\ prev.path = "load"
  /\ ret.path = "load"
  /\ ret.value = prev.value
  /\ fs = prev.pre

\* C4: when a call takes the create path and writes its record, the next call
\* returns the deviceId, publicKey and privateKey the first one returned.
C4_RoundTrip ==
  (/\ ret.op = "loadOrCreate"
   /\ prev.op = "loadOrCreate"
   /\ prev.path = "create"
   /\ ~prev.threw
   /\ ~ret.readFails) =>
    /\ ret.path = "load"
    /\ ret.value.deviceId = prev.value.deviceId
    /\ ret.value.publicKeyPem = prev.value.publicKeyPem
    /\ ret.value.privateKeyPem = prev.value.privateKeyPem

C4_Witness ==
  /\ ret.op = "loadOrCreate"
  /\ prev.op = "loadOrCreate"
  /\ prev.path = "create"
  /\ ~prev.threw
  /\ ret.path = "load"
  /\ ret.value = prev.value
  /\ ret.value = generateIdentity(prev.key)

\* version is 1 and deviceId, publicKeyPem and privateKeyPem are non-empty strings
SchemaOk(text) ==
  /\ text.top = "object"
  /\ text.f["version"] = JNum(1)
  /\ \A field \in {"deviceId", "publicKeyPem", "privateKeyPem"} :
       text.f[field].t = "string" /\ text.f[field].s # Str("")

\* C5: the load path accepts a record only if version is 1 and deviceId,
\* publicKey and privateKey are each a non-empty string; every other record is
\* rejected and a fresh identity is generated.
C5_AcceptsOnlyStrings ==
  (ret.op = "loadOrCreate" /\ ret.pre.exists /\ ~ret.readFails /\ ret.pre.text.valid) =>
    /\ ret.path = "load" => SchemaOk(ret.pre.text)
    /\ ~SchemaOk(ret.pre.text) => ret.path = "create"

\* C6: every identity loadOrCreateDeviceIdentity returns has key material with
\* which signDevicePayload succeeds.
C6_SigningSucceeds ==
  (ret.op = "sign" /\ prev.op = "loadOrCreate" /\ ret.arg = prev.value.privateKeyPem) =>
    ~ret.threw

\* C7: a call throws exactly when mkdirSync or writeFileSync fails on its
\* create path; it then returns no identity, the error is that failure, and
\* the file does not hold the new record (no second attempt); a failure of the
\* load phase alone (unreadable file, bad JSON, bad schema, bad key) is absorbed.
C7_WriteFailureSurfaces ==
  ret.op = "loadOrCreate" =>
    /\ ret.threw <=> (ret.path = "create" /\ ret.fault # "none")
    /\ ret.threw =>
         /\ ret.value = NoIdentity
         /\ ret.err = ret.fault
         /\ ~HoldsRecordOf(fs, generateIdentity(ret.key))
    /\ ~ret.threw => ret.value # NoIdentity
    /\ (ret.why \in {"read", "json", "schema", "key"} /\ ret.fault = "none") => ~ret.threw

C7_Witness ==
  /\ ret.op = "loadOrCreate"
  /\ ret.why = "read"
  /\ ret.fault = "write"
  /\ ret.threw
  /\ ret.value = NoIdentity

\* C8: raw public-key derivation returns exactly 32 bytes or fails: the inner
\* 32 bytes for the wrapped form (algorithm prefix, then 32 key bytes) or a
\* bare 32-byte form, an error for a decoded key of any other length.
C8_Exactly32Bytes ==
  ret.op = "wire" =>
    LET key == createPublicKey(ret.arg)
        spki == ExportSpki(key.key)
    IN IF ~key.ok
         THEN ret.threw
         ELSE IF Len(spki) \in {Len(ED25519_SPKI_PREFIX) + RAW_KEY_LEN, RAW_KEY_LEN}
                THEN /\ ~ret.threw
                     /\ ret.msg = SubSeq(spki, Len(spki) - RAW_KEY_LEN + 1, Len(spki))
                ELSE ret.threw

\* the byte string with byte i raised by d (mod 256)
FlipByte(buf, i, d) == [buf EXCEPT ![i] = (buf[i] + d) % 256]

FlipDeltas == {1, 128, 255}

\* C12: when an identity was freshly generated and a payload is signed with its
\* private key, the signature (decoded from base64url) verifies against the
\* identity's public key and the payload's bytes, and verification fails when
\* one byte of the payload or one byte of the signature is changed.
C12_SignatureValid ==
  (ret.op = "sign" /\ prev.op = "loadOrCreate" /\ prev.path = "create" /\ ~prev.threw) =>
    /\ ~ret.threw
    /\ \A message \in {Utf8(ret.msg)}, signature \in {Base64UrlDecode(ret.out)} :
         /\ Len(signature) = SIGNATURE_LEN
         /\ Ed25519Verify(prev.value.publicKeyPem, message, signature)
         /\ \A i \in 1..Len(message), d \in FlipDeltas :
              ~Ed25519Verify(prev.value.publicKeyPem, FlipByte(message, i, d), signature)
         /\ \A i \in 1..Len(signature), d \in FlipDeltas :
              ~Ed25519Verify(prev.value.publicKeyPem, message, FlipByte(signature, i, d))

C12_Witness ==
  /\ ret.op = "sign"
  /\ prev.op = "loadOrCreate"
  /\ prev.path = "create"
  /\ ~ret.threw
  /\ Ed25519Verify(prev.value.publicKeyPem, Utf8(ret.msg), Base64UrlDecode(ret.out))
  /\ ~Ed25519Verify(prev.value.publicKeyPem, FlipByte(Utf8(ret.msg), 1, 1),
                     Base64UrlDecode(ret.out))

\* C13: after any call that writes an identity record, also one that replaces
\* a corrupted or invalid file with broader permissions, the mode of the
\* identity file is rw------- (0600).
C13_OwnerOnlyMode ==
  (ret.op = "loadOrCreate" /\ ret.path = "create" /\ ~ret.threw) =>
    /\ HoldsRecordOf(fs, ret.value)
    /\ fs.mode = MODE_0600

\* the identity a call returns when it loads the record r read
IdentityOf(r) ==
  [deviceId |-> Fingerprint(Stored(r)["publicKeyPem"]),
   publicKeyPem |-> Stored(r)["publicKeyPem"],
   privateKeyPem |-> Stored(r)["privateKeyPem"]]

\* C15: a call's result depends only on the file at the time of the call: on a
\* valid file it returns the identity of that file's record, on no file it
\* generates a new one; so when the file was replaced by a different valid
\* record since the process was last given an identity, the call returns the
\* identity of the new record, and when it was deleted, a newly generated one,
\* never the identity returned earlier.
C15_NoCaching ==
  (ret.op = "loadOrCreate" /\ ~ret.readFails /\ ret.fault = "none") =>
    /\ ValidFile(ret.pre) => (ret.path = "load" /\ ret.value = IdentityOf(ret))
    /\ ~ret.pre.exists => (ret.path = "create" /\ ret.value = generateIdentity(ret.key))
    /\ (prev.op = "env" /\ prev.value # NoIdentity) =>
         /\ (ValidFile(ret.pre) /\ IdentityOf(ret) # prev.value) => ret.value # prev.value
         /\ ~ret.pre.exists => ret.value # prev.value

\* the process was given the identity of key 1, the file was then replaced by
\* the record of another identity, and the next call returned that other one
C15_Witness ==
  /\ ret.op = "loadOrCreate"
  /\ prev.op = "env"
  /\ prev.value = generateIdentity(1)
  /\ ValidFile(ret.pre)
  /\ ret.path = "load"
  /\ ret.value = generateIdentity(0)

\* C18: a call that writes (create path, no failure) leaves a record with
\* version 1 whose deviceId is the fingerprint of its own public key and whose
\* deviceId, public key and private key are those of the returned identity;
\* a call changes the file only on the create path, so a call whose load was
\* accepted leaves the file, a stale stored deviceId included, as it was.
C18_WrittenRecordConsistent ==
  ret.op = "loadOrCreate" =>
    /\ (ret.path = "create" /\ ~ret.threw) =>
         /\ fs.exists /\ fs.text.valid /\ fs.text.top = "object"
         /\ fs.text.f["version"] = JNum(1)
         /\ fs.text.f["deviceId"] = Fingerprint(fs.text.f["publicKeyPem"])
         /\ fs.text.f["deviceId"] = ret.value.deviceId
         /\ fs.text.f["publicKeyPem"] = ret.value.publicKeyPem
         /\ fs.text.f["privateKeyPem"] = ret.value.privateKeyPem
         /\ fs.text.f["createdAtMs"] \in {JNum(now) : now \in Clock}
    /\ ret.path = "load" => fs = ret.pre
    /\ fs # ret.pre => ret.path = "create"

\* a record with a stale deviceId was loaded: the call returned the recomputed
\* deviceId and the file still holds the stale one
C18_Witness ==
  /\ ret.op = "loadOrCreate"
  /\ ret.path = "load"
  /\ fs = ret.pre
  /\ fs.text.f["deviceId"] = JStr(Str("tampered"))
  /\ ret.value.deviceId = Fingerprint(fs.text.f["publicKeyPem"])
  /\ ret.value.deviceId # fs.text.f["deviceId"]

(***************************************************************************)
(* Properties of concurrent calls, checked under SpecRace.                 *)
(***************************************************************************)
\* the call of p has returned from the create path
Created(p) == procs[p].pc = "done" /\ procs[p].path = "create"

\* C14: with no locking, when two concurrent calls have both taken the create
\* path and every call has returned, the two returned distinct identities and
\* the file holds the record of at most one of them: a call has returned an
\* identity that differs from the one finally persisted.
C14_RaceOverwrites ==
  \A p, q \in Procs :
    (p # q /\ AllDone /\ Created(p) /\ Created(q)) =>
      /\ procs[p].value.publicKeyPem # procs[q].value.publicKeyPem
      /\ procs[p].value.deviceId # procs[q].value.deviceId
      /\ ~HoldsRecordOf(fs, procs[p].value) \/ ~HoldsRecordOf(fs, procs[q].value)

\* two calls of a first run (each found no file) have both generated and
\* written, and one of them lost: the file holds the other's identity
C14_Witness ==
  \E p, q \in Procs :
    /\ p # q
    /\ AllDone
    /\ Created(p) /\ procs[p].why = "absent"
    /\ Created(q) /\ procs[q].why = "absent"
    /\ HoldsRecordOf(fs, procs[q].value)
    /\ ~HoldsRecordOf(fs, procs[p].value)
    /\ procs[p].value # NoIdentity

HasChar(str, c) == \E i \in 1..Len(str) : str[i] = c

FieldCount(str) == Cardinality({i \in 1..Len(str) : str[i] = "|"}) + 1

LastField(str) ==
  LET bars == {i \in 1..Len(str) : str[i] = "|"}
      last == CHOOSE i \in bars : \A j \in bars : j <= i
  IN IF bars = {} THEN str ELSE SubSeq(str, last + 1, Len(str))

StartsWith(str, prefix) ==
  /\ Len(str) >= Len(prefix)
  /\ SubSeq(str, 1, Len(prefix)) = prefix

\* no field of the parameter set contains the field delimiter
DelimiterFree(params) ==
  /\ \A str \in {params.deviceId, params.clientId, params.clientMode, params.role,
                 params.token.s, params.nonce.s} : ~HasChar(str, "|")
  /\ \A i \in 1..Len(params.scopes) : ~HasChar(params.scopes[i], "|")

\* C9: with a nonce supplied (any string) the payload begins with "v2|", has 9
\* fields and ends with the nonce; with the nonce omitted it begins with "v1|"
\* and has 8 fields.
C9_Versioning ==
  (pl.called /\ DelimiterFree(pl.params)) =>
    IF pl.params.nonce.present
      THEN /\ StartsWith(pl.out, <<"v", "2", "|">>)
           /\ FieldCount(pl.out) = 9
           /\ LastField(pl.out) = pl.params.nonce.s
      ELSE /\ StartsWith(pl.out, <<"v", "1", "|">>)
           /\ FieldCount(pl.out) = 8

Swap(seq, i, j) == [seq EXCEPT ![i] = seq[j], ![j] = seq[i]]

\* exchanging any two different scopes of the call changes the payload
SwapChangesPayload(call) ==
  \A i, j \in 1..Len(call.params.scopes) :
    call.params.scopes[i] # call.params.scopes[j] =>
      buildDeviceAuthPayload([call.params EXCEPT !.scopes = Swap(call.params.scopes, i, j)])
        # call.out

\* a second call with the arguments of the call returns the same string
SameOnSecondCall(call) == buildDeviceAuthPayload(call.params) = call.out

\* C10 as stated: a second call with identical arguments returns the identical
\* string and, for any scope list, exchanging two different scopes changes the
\* payload.
C10_AnyScopes == pl.called => (SameOnSecondCall(pl) /\ SwapChangesPayload(pl))

\* C10, amended: a second call with identical arguments returns the identical
\* string and, for any scope list whose scopes do not contain ',', exchanging
\* two different scopes changes the payload.
C10_OrderSensitive ==
  pl.called =>
    /\ SameOnSecondCall(pl)
    /\ (\A i \in 1..Len(pl.params.scopes) : ~HasChar(pl.params.scopes[i], ",")) =>
         SwapChangesPayload(pl)

C10_Witness ==
  /\ pl.called
  /\ Len(pl.params.scopes) = 3
  /\ pl.params.scopes[1] # pl.params.scopes[3]
  /\ \A i \in 1..3 : ~HasChar(pl.params.scopes[i], ",")
  /\ SwapChangesPayload(pl)

\* scopes written one after another, a ',' before each but the first
RECURSIVE CommaJoined(_)
CommaJoined(scopes) ==
  IF Len(scopes) = 0
    THEN <<>>
    ELSE IF Len(scopes) = 1
           THEN scopes[1]
           ELSE CommaJoined(SubSeq(scopes, 1, Len(scopes) - 1)) \o <<",">> \o scopes[Len(scopes)]

\* the eight fields of the layout, in order, a '|' between neighbours; the
\* token field is empty when the token is null
EightFields(call) ==
  (IF StartsWith(call.out, <<"v", "2">>) THEN <<"v", "2">> ELSE <<"v", "1">>)
    \o <<"|">> \o call.params.deviceId
    \o <<"|">> \o call.params.clientId
    \o <<"|">> \o call.params.clientMode
    \o <<"|">> \o call.params.role
    \o <<"|">> \o CommaJoined(call.params.scopes)
    \o <<"|">> \o MsToString(call.params.signedAtMs)
    \o <<"|">> \o (IF call.params.token.present THEN call.params.token.s ELSE <<>>)

\* "v1|abc|c1|cli|admin|read,write|1700000000000|"
ExamplePayload ==
  <<"v", "1", "|", "a", "b", "c", "|", "c", "1", "|", "c", "l", "i", "|",
    "a", "d", "m", "i", "n", "|", "r", "e", "a", "d", ",", "w", "r", "i", "t", "e", "|",
    "1", "7", "0", "0", "0", "0", "0", "0", "0", "0", "0", "0", "0", "|">>

\* C11: every payload starts with version, deviceId, clientId, clientMode, role,
\* comma-joined scopes, signedAt, token in that order joined by '|', and a v1
\* payload is exactly that; a null token is an empty field, never left out;
\* the example parameters yield "v1|abc|c1|cli|admin|read,write|1700000000000|".
C11_FixedLayout ==
  pl.called =>
    /\ StartsWith(pl.out, EightFields(pl))
    /\ StartsWith(pl.out, <<"v", "1">>) => pl.out = EightFields(pl)
    /\ StartsWith(pl.out, <<"v", "2">>) =>
         pl.out = EightFields(pl) \o <<"|">> \o pl.params.nonce.s
    /\ (~pl.params.token.present /\ StartsWith(pl.out, <<"v", "1">>)) =>
         /\ pl.out[Len(pl.out)] = "|"
         /\ (DelimiterFree(pl.params) => FieldCount(pl.out) = 8)
    /\ pl.params = ExampleParams => pl.out = ExamplePayload

C11_Witness ==
  /\ pl.called
  /\ pl.params = ExampleParams
  /\ pl.out = ExamplePayload

\* no string field contains '|' and no scope contains '|' or ','
SeparatorFree(params) ==
  /\ DelimiterFree(params)
  /\ \A i \in 1..Len(params.scopes) : ~HasChar(params.scopes[i], ",")

TokenString(params) == IF params.token.present THEN params.token.s ELSE <<>>

\* the two parameter sets differ in deviceId, clientId, clientMode, role, the
\* scope sequence, signedAtMs, the token (null taken as "") or the nonce
Differ(a, b) ==
  \/ a.deviceId # b.deviceId
  \/ a.clientId # b.clientId
  \/ a.clientMode # b.clientMode
  \/ a.role # b.role
  \/ a.scopes # b.scopes
  \/ a.signedAtMs # b.signedAtMs
  \/ TokenString(a) # TokenString(b)
  \/ a.nonce # b.nonce

\* C19: the builder is injective on separator-free input: the payload of the
\* call differs from the payload of every other separator-free parameter set
\* that differs from the call's in some field.
C19_Injective ==
  (pl.called /\ SeparatorFree(pl.params)) =>
    \A other \in PayloadParams :
      (SeparatorFree(other) /\ Differ(other, pl.params)) =>
        buildDeviceAuthPayload(other) # pl.out

(***************************************************************************)
(* The ARIA hook script, scripts/aria-mc-hook.sh: one run of the script    *)
(* from its command line to its exit.  Shell strings are sequences of      *)
(* characters; the health check and the bridge are outside processes and   *)
(* answer with any exit status and output they can produce.                *)
(***************************************************************************)
UPPER ==
  <<"A", "B", "C", "D", "E", "F", "G", "H", "I", "J", "K", "L", "M", "N", "O", "P", "Q", "R", "S", "T", "U", "V", "W", "X", "Y", "Z">>

LOWER ==
  <<"a", "b", "c", "d", "e", "f", "g", "h", "i", "j", "k", "l", "m", "n", "o", "p", "q", "r", "s", "t", "u", "v", "w", "x", "y", "z">>

\* tr '[:upper:]' '[:lower:]'
ToLower(s) ==
  [i \in 1..Len(s) |->
     IF \E n \in 1..Len(UPPER) : UPPER[n] = s[i]
     THEN LOWER[CHOOSE n \in 1..Len(UPPER) : UPPER[n] = s[i]]
     ELSE s[i]]

\* the glob pattern prefix* of a case branch
HasPrefix(s, prefix) ==
  /\ Len(s) >= Len(prefix)
  /\ SubSeq(s, 1, Len(prefix)) = prefix

\* the branches of resolve_agent's case, in order: pattern prefix and agent
AGENT_PATTERNS ==
  << 
     <<<<"r", "e", "s", "e", "a", "r", "c", "h", "e", "r">>, <<"R", "e", "s", "e", "a", "r", "c", "h", "e", "r">>>>,
     <<<<"c", "o", "d", "e", "r">>, <<"C", "o", "d", "e", "r">>>>,
     <<<<"f", "i", "x", "-">>, <<"C", "o", "d", "e", "r">>>>,
     <<<<"d", "e", "v", "-">>, <<"C", "o", "d", "e", "r">>>>,
     <<<<"b", "r", "a", "i", "n", "s", "t", "o", "r", "m">>, <<"B", "r", "a", "i", "n", "s", "t", "o", "r", "m">>>>,
     <<<<"q", "a">>, <<"Q", "A">>>>,
     <<<<"t", "e", "s", "t", "-">>, <<"Q", "A">>>>,
     <<<<"l", "i", "n", "k", "e", "d", "i", "n">>, <<"L", "i", "n", "k", "e", "d", "I", "n", " ", "W", "r", "i", "t", "e", "r">>>>,
     <<<<"w", "r", "i", "t", "e", "r">>, <<"L", "i", "n", "k", "e", "d", "I", "n", " ", "W", "r", "i", "t", "e", "r">>>>,
     <<<<"s", "y", "n", "t", "h">>, <<"S", "y", "n", "t", "h", "e", "s", "i", "z", "e", "r">>>>,
     <<<<"b", "r", "i", "e", "f">>, <<"S", "y", "n", "t", "h", "e", "s", "i", "z", "e", "r">>>>,
     <<<<"m", "o", "r", "n", "i", "n", "g">>, <<"S", "y", "n", "t", "h", "e", "s", "i", "z", "e", "r">>>>,
     <<<<"a", "r", "c", "h", "i", "v">>, <<"A", "r", "c", "h", "i", "v", "i", "s", "t">>>>,
     <<<<"j", "o", "u", "r", "n", "a", "l">>, <<"A", "r", "c", "h", "i", "v", "i", "s", "t">>>>,
     <<<<"d", "i", "v", "i", "n", "g">>, <<"D", "i", "v", "i", "n", "g">>>>,
     <<<<"c", "a", "s", "a", "r">>, <<"D", "i", "v", "i", "n", "g">>>>,
     <<<<"h", "o", "m", "e">>, <<"H", "o", "m", "e">>>>,
     <<<<"t", "v", "-">>, <<"H", "o", "m", "e">>>>,
     <<<<"s", "o", "n", "o", "s", "-">>, <<"H", "o", "m", "e">>>>,
     <<<<"m", "o", "n", "i", "t", "o", "r">>, <<"M", "o", "n", "i", "t", "o", "r">>>>,
     <<<<"a", "r", "i", "a">>, <<"A", "R", "I", "A">>>>
  >>

RECURSIVE FirstMatch(_, _)
FirstMatch(label, i) ==
  IF i > Len(AGENT_PATTERNS) THEN <<>>
  ELSE IF HasPrefix(label, AGENT_PATTERNS[i][1]) THEN AGENT_PATTERNS[i][2]
  ELSE FirstMatch(label, i + 1)

resolve_agent(label) == FirstMatch(ToLower(label), 1)

\* "$*": the arguments joined by single spaces
RECURSIVE JoinArgs(_)
JoinArgs(args) ==
  IF args = <<>> THEN <<>>
  ELSE IF Len(args) = 1 THEN args[1]
  ELSE args[1] \o <<" ">> \o JoinArgs(Tail(args))

\* ${n}: the n-th argument, empty when it is not given
Arg(args, n) == IF n <= Len(args) THEN args[n] ELSE <<>>

\* shift n
Shift(args, n) == IF n <= Len(args) THEN SubSeq(args, n + 1, Len(args)) ELSE args

\* ${x:-default}
OrDefault(x, default) == IF x = <<>> THEN default ELSE x

TASK_COMPLETED == <<"T", "a", "s", "k", " ", "c", "o", "m", "p", "l", "e", "t", "e", "d">>

UNKNOWN_ERROR == <<"U", "n", "k", "n", "o", "w", "n", " ", "e", "r", "r", "o", "r">>

\* the lines the usage branch echoes
USAGE_TEXT == <<"ARIA -> Mission Control Hook", "", "Usage:", "Examples:">>

HookCommands == {"start", "tmux-start", "done", "tmux-done", "error", "update"}

\* the script leaves with a status
ExitHook(h, status) == [h EXCEPT !.pc = "exited", !.status = status]

\* the parameter expansions at the head of each branch, lines 69-77,
\* 100-105, 120-125 and 139-145: a required argument that is missing or
\* empty ends the script, otherwise LABEL, AGENT and the texts are set
ParseBranch(h) ==
  LET args == h.args
      LABEL == Arg(args, 1)
      resolved == resolve_agent(LABEL)
      AGENT == IF resolved = <<>> THEN LABEL ELSE resolved
      ready(text, taskId) ==
        [h EXCEPT !.pc = "health", !.label = LABEL, !.agent = AGENT,
                  !.text = text, !.taskId = taskId]
  IN  IF h.cmd \in {"start", "tmux-start"} THEN
        IF LABEL = <<>> \/ JoinArgs(Shift(args, 1)) = <<>>
        THEN ExitHook(h, 1)
        ELSE ready(JoinArgs(Shift(args, 1)), <<>>)
      ELSE IF h.cmd \in {"done", "tmux-done"} THEN
        IF LABEL = <<>> \/ Arg(args, 2) = <<>>
        THEN ExitHook(h, 1)
        ELSE ready(OrDefault(Arg(args, 3), TASK_COMPLETED), Arg(args, 2))
      ELSE IF h.cmd = "error" THEN
        IF LABEL = <<>> \/ Arg(args, 2) = <<>>
        THEN ExitHook(h, 1)
        ELSE ready(OrDefault(Arg(args, 3), UNKNOWN_ERROR), Arg(args, 2))
      ELSE IF h.cmd = "update" THEN
        IF LABEL = <<>> \/ Arg(args, 2) = <<>> \/ JoinArgs(Shift(args, 2)) = <<>>
        THEN ExitHook(h, 1)
        ELSE ready(JoinArgs(Shift(args, 2)), Arg(args, 2))
      ELSE [ExitHook(h, 1) EXCEPT !.stdout = USAGE_TEXT]

HealthGateExitStatus(h, rc) ==
  IF rc # 0 THEN ExitHook([h EXCEPT !.health = rc], rc)
  ELSE [h EXCEPT !.health = rc, !.pc = "bridge"]

\* if ! mc_alive; then exit 0; fi: rc is curl's exit status
HealthGate(h, rc) ==
  IF rc # 0 THEN ExitHook([h EXCEPT !.health = rc], 0)
  ELSE [h EXCEPT !.health = rc, !.pc = "bridge"]

\* the command line handed to python3 "$BRIDGE"
BridgeArgs(h) ==
  IF h.cmd \in {"start", "tmux-start"} THEN
    [sub |-> "agent-start", agent |-> h.agent, task |-> h.text,
     label |-> h.label, description |-> h.cmd = "tmux-start"]
  ELSE IF h.cmd \in {"done", "tmux-done"} THEN
    [sub |-> "agent-done", agent |-> h.agent, taskId |-> h.taskId,
     summary |-> h.text]
  ELSE IF h.cmd = "error" THEN
    [sub |-> "agent-error", agent |-> h.agent, taskId |-> h.taskId,
     error |-> h.text]
  ELSE
    [sub |-> "agent-update", agent |-> h.agent, taskId |-> h.taskId,
     message |-> h.text]

\* timeout "$TIMEOUT" python3 "$BRIDGE" ... || exit 0, and for start the
\* echo of the captured task id; the other branches send the bridge's
\* output to /dev/null
AfterBridge(h, rc, out) ==
  LET called == [h EXCEPT !.bridge = Append(@, BridgeArgs(h)),
                          !.bridgeStatus = rc]
  IN  IF rc # 0 THEN ExitHook(called, 0)
      ELSE IF h.cmd \in {"start", "tmux-start"}
      THEN [ExitHook(called, 0) EXCEPT !.stdout = <<out>>]
      ELSE ExitHook(called, 0)

\* what the health check can answer: curl's exit status, 0 or that of a
\* refused connection, of an HTTP error under -f, of --max-time running out
HealthOutcomes == {0, 7, 22, 28}

\* what the bridge can answer: its exit status, that of python3 when the
\* bridge file cannot be opened, or that of timeout(1) when the time is up,
\* and what it wrote to stdout before
BridgeStatuses == {0, 1, 2, 124}

BridgeOutputs == {<<>>, <<"t", "1">>, <<"E", "r", "r">>}

HookLabels == {<<>>, <<"R", "e", "s", "e", "a", "r", "c", "h", "e", "r", "-", "1">>, <<"f", "i", "x", "-", "1">>, <<"q", "a">>, <<"a", "r", "i", "a">>, <<"z">>}

HookWords == {<<>>, <<"t", "1">>}

HookArgs ==
  {<<>>} \cup {<<l>> : l \in HookLabels}
         \cup {<<l, a>> : l \in HookLabels, a \in HookWords}
         \cup {<<l, a, b>> : l \in HookLabels, a \in HookWords, b \in HookWords}

\* CMD="${1:-}"; shift: the script starts with a command and its arguments
InitHook ==
  /\ fs = NoFile
  /\ nextKey = 1
  /\ ret = NoRet
  /\ prev = NoRet
  /\ pl = NoPayload
  /\ procs = [p \in Procs |-> IdleProc]
  /\ sim = NoSim
  /\ hook \in {[NoHook EXCEPT !.pc = "parse", !.cmd = c, !.args = a] :
                 c \in HookCommands \cup {"", "status"}, a \in HookArgs}

HookParse ==
  /\ hook.pc = "parse"
  /\ hook' = ParseBranch(hook)
  /\ UNCHANGED <<fs, nextKey, ret, prev, pl, procs, sim>>

mc_alive ==
  /\ hook.pc = "health"
  /\ \E rc \in HealthOutcomes : hook' = HealthGate(hook, rc)
  /\ UNCHANGED <<fs, nextKey, ret, prev, pl, procs, sim>>

HookBridge ==
  /\ hook.pc = "bridge"
  /\ \E rc \in BridgeStatuses, out \in BridgeOutputs :
       hook' = AfterBridge(hook, rc, out)
  /\ UNCHANGED <<fs, nextKey, ret, prev, pl, procs, sim>>

NextHook ==
  \/ HookParse
  \/ mc_alive
  \/ HookBridge

SpecHook == InitHook /\ [][NextHook]_vars

\* the run had its required arguments: it got past the parameter expansions
HookRan == hook.pc = "exited" /\ hook.cmd \in HookCommands /\ hook.health # -1

HookFailed == hook.health # 0 \/ hook.bridgeStatus \notin {-1, 0}

(* C16: a run of start, tmux-start, done, tmux-done, error or update with  *)
(* its required arguments whose health check fails, or whose bridge call   *)
(* fails or times out, exits with status 0, has printed nothing to stdout, *)
(* and has made no bridge call after the failure: none when the health     *)
(* check failed, and only the failed one otherwise.                        *)
C16_FailsSilently ==
  (HookRan /\ HookFailed) =>
     /\ hook.status = 0
     /\ hook.stdout = <<>>
     /\ Len(hook.bridge) = (IF hook.health # 0 THEN 0 ELSE 1)

C16_Witness ==
  /\ HookRan
  /\ hook.cmd = "tmux-start"
  /\ hook.health = 0
  /\ hook.bridgeStatus = 124
  /\ Len(hook.bridge) = 1
  /\ hook.status = 0

(***************************************************************************)
(* The demo simulator, scripts/demo-simulator.js: every interval simulate  *)
(* picks one of five functions at random and runs it on the database.      *)
(* The database holds a workspace, the orchestrator and one builder agent; *)
(* of the tasks the model keeps how many are in each status: titles,       *)
(* priorities, comments and events are written and never read back, so     *)
(* the functions that only write them leave the state as it is.            *)
(***************************************************************************)
\* count.n > 12: createNewTask skips when more tasks than this are not done
OPEN_TASKS_LIMIT == 12

\* doneTasks.n < 4: recycleDoneTasks skips below this many done tasks
DONE_TASKS_MIN == 4

\* STATUS_FLOW.indexOf(status), counted from 1
IndexOf(status) == CHOOSE i \in 1..Len(STATUS_FLOW) : STATUS_FLOW[i] = status

\* SELECT COUNT(*) FROM tasks WHERE status = ?
CountIn(s, status) == s.tasks[status]

RECURSIVE SumCounts(_, _)
SumCounts(s, set) ==
  IF set = {} THEN 0
  ELSE LET st == CHOOSE x \in set : TRUE
       IN  s.tasks[st] + SumCounts(s, set \ {st})

\* SELECT COUNT(*) FROM tasks WHERE status != 'done'
CountNotDone(s) == SumCounts(s, Statuses \ {"done"})

CountTasks(s) == SumCounts(s, Statuses)

\* one task leaves a status for another
MoveTask(s, from, to) ==
  [s EXCEPT !.tasks = [@ EXCEPT ![from] = @ - 1, ![to] = s.tasks[to] + 1]]

\* WHERE t.status != 'done' AND t.status != 'planning': the statuses from
\* which advanceTask takes a task
Advanceable(s) == {st \in Statuses \ {"done", "planning"} : s.tasks[st] > 0}

\* advanceTask: a random task that is neither done nor in planning moves to
\* the next status of the flow; null when there is none
advanceTask ==
  /\ \E st \in Advanceable(sim) :
       /\ IndexOf(st) < Len(STATUS_FLOW)
       /\ sim' = MoveTask(sim, st, STATUS_FLOW[IndexOf(st) + 1])
  /\ UNCHANGED <<fs, nextKey, ret, prev, pl, procs, hook>>

\* addComment: a comment row for a random task that has an agent and is
\* assigned, in progress, testing or in review; null when there is none
addComment ==
  /\ \E st \in {"assigned", "in_progress", "testing", "review"} : sim.tasks[st] > 0
  /\ UNCHANGED vars

\* toggleAgentStatus: a random agent that is not the orchestrator gets one
\* of the two statuses it does not have
toggleAgentStatus ==
  /\ \E newStatus \in {"working", "standby", "offline"} \ {sim.agent} :
       sim' = [sim EXCEPT !.agent = newStatus]
  /\ UNCHANGED <<fs, nextKey, ret, prev, pl, procs, hook>>

\* createNewTask: a new task in the inbox unless more than twelve tasks are
\* not done; the model stops creating at MaxTasks tasks
createNewTask ==
  /\ ~(CountNotDone(sim) > OPEN_TASKS_LIMIT)
  /\ CountTasks(sim) < MaxTasks
  /\ sim' = [sim EXCEPT !.tasks = [@ EXCEPT !["inbox"] = @ + 1]]
  /\ UNCHANGED <<fs, nextKey, ret, prev, pl, procs, hook>>

\* recycleDoneTasks: with four done tasks or more, the oldest goes back to
\* planning
recycleDoneTasks ==
  /\ ~(CountIn(sim, "done") < DONE_TASKS_MIN)
  /\ sim' = MoveTask(sim, "done", "planning")
  /\ UNCHANGED <<fs, nextKey, ret, prev, pl, procs, hook>>

\* the tick in which the picked function and the fallback both return
\* null: toggleAgentStatus never does, each of the others can be picked twice
idle ==
  /\ \/ Advanceable(sim) = {}
     \/ \A st \in {"assigned", "in_progress", "testing", "review"} : sim.tasks[st] = 0
     \/ CountNotDone(sim) > OPEN_TASKS_LIMIT
     \/ CountIn(sim, "done") < DONE_TASKS_MIN
  /\ UNCHANGED vars

\* the database the simulator is started on, new Database(dbPath), with no
\* task yet
InitSimEmpty ==
  /\ fs = NoFile
  /\ nextKey = 1
  /\ ret = NoRet
  /\ prev = NoRet
  /\ pl = NoPayload
  /\ procs = [p \in Procs |-> IdleProc]
  /\ hook = NoHook
  /\ sim = NoSim

\* a database on which the simulator has run for a while: six tasks have
\* been recycled to planning and three are done, a board SpecSimEmpty
\* reaches
InitSim ==
  /\ fs = NoFile
  /\ nextKey = 1
  /\ ret = NoRet
  /\ prev = NoRet
  /\ pl = NoPayload
  /\ procs = [p \in Procs |-> IdleProc]
  /\ hook = NoHook
  /\ sim = [NoSim EXCEPT !.tasks = [@ EXCEPT !["planning"] = 6, !["done"] = 3]]

\* simulate: the picked function runs; when it returns null a fallback
\* function, picked among all five again, runs in its place.  Either way
\* the tick is one run of one function that does not return null, or idle
simulate ==
  \/ advanceTask
  \/ addComment
  \/ toggleAgentStatus
  \/ createNewTask
  \/ recycleDoneTasks
  \/ idle

NextSim == simulate

\* setInterval runs simulate for ever and pickAction gives every function a
\* positive weight, so a function that can act is run in the end.  Weak
\* fairness states all of it: a cycle of the board holds no advance, create
\* or recycle step (each moves a count that no step of the cycle could move
\* back), so along a cycle each of the three is enabled always or never.
FairSim ==
  /\ WF_vars(advanceTask)
  /\ WF_vars(toggleAgentStatus)
  /\ WF_vars(createNewTask)
  /\ WF_vars(recycleDoneTasks)

SpecSim == InitSim /\ [][NextSim]_vars /\ FairSim

SpecSimEmpty == InitSimEmpty /\ [][NextSim]_vars /\ FairSim

(* C17: under fair selection of the simulation actions the board keeps     *)
(* cycling: from every reachable state some task is moved to its next      *)
(* status again, that is, advanceTask moves a task infinitely often.       *)
C17_KeepsCycling == []<><<advanceTask>>_vars

=============================================================================
